---------------------------- MODULE Spec2Model ----------------------------
(***************************************************************************)
(* A model of sarc/config.py: the configuration loader (parse_config and   *)
(* the $SELF path resolver), the context-scoped current configuration      *)
(* (config_var, config, using_config), the record base (dict, replace),    *)
(* the cached service handles of ClusterConfig and MongoConfig, and the    *)
(* cross-field validators of the root Config.                              *)
(*                                                                         *)
(* Four specifications share the variables; each leaves the variables of  *)
(* the others at rest:                                                     *)
(*   Spec        loader and scoped current configuration, one task         *)
(*   SpecTasks   scoped current configuration, two interleaved tasks       *)
(*   SpecRecords leaf records: attribute assignment, handles, dict,        *)
(*               replace                                                   *)
(*   SpecRoot    construction of a root Config from raw input              *)
(***************************************************************************)
EXTENDS Naturals, Sequences, FiniteSets

VARIABLES
    config_var,     \* ContextVar "config": context -> MISSING or a Config
    config_folder,  \* module global _config_folder
    frames,         \* task -> stack of suspended using_config generators
    lazy,           \* task -> the Config stored by config()'s lazy load
    ret,            \* the last call made: its task, arguments and outcome
    heap,           \* leaf record instances (their __dict__ and class)
    built,          \* per instance and accessor: handles constructed
    raised,         \* per instance: accessors that raised ConfigurationError
    rret,           \* outcome of the last call on a leaf record
    rootin,         \* the keyword arguments given to Config(...)
    root            \* what Config(**rootin) came to, or None before

vars == <<config_var, config_folder, frames, lazy, ret,
          heap, built, raised, rret, rootin, root>>

scopeVars  == <<config_var, config_folder, frames, lazy, ret>>
recordVars == <<heap, built, raised, rret>>
rootVars   == <<rootin, root>>

(***************************************************************************)
(* Bounds                                                                  *)
(***************************************************************************)
MaxScopes == 2      \* using_config scopes open at once, over all tasks
MaxBuilt == 2       \* handles constructed by one accessor of one instance

Tasks == {1, 2}

(***************************************************************************)
(* Values                                                                  *)
(***************************************************************************)
None == [tag |-> "None"]
MISSING == [tag |-> "MISSING"]      \* Token.MISSING: the variable is unset

\* A path (and a path-valued string) is the sequence of its components;
\* an absolute path starts with the component "/".  NoPath is Python's None
\* in a path-valued or string-path-valued place.
NoPath == <<>>
Home == <<"/", "home">>
Cwd == <<"/", "work">>

IsAbsolute(p) == Len(p) > 0 /\ p[1] = "/"

\* pathlib.PurePath.parent
Parent(p) ==
    IF Len(p) <= 1
        THEN (IF IsAbsolute(p) THEN p ELSE <<".">>)
        ELSE SubSeq(p, 1, Len(p) - 1)

\* pathlib.Path.absolute: prefixes the working directory, no normalisation
Absolute(p) == IF IsAbsolute(p) THEN p ELSE Cwd \o p

\* pathlib.Path.expanduser: a leading "~" becomes the home directory
ExpandUser(p) ==
    IF Len(p) > 0 /\ p[1] = "~" THEN Home \o SubSeq(p, 2, Len(p)) ELSE p

\* str.replace(old, new) on a string held as a sequence of components
RECURSIVE StrReplace(_, _, _)
StrReplace(s, old, new) ==
    IF s = <<>> THEN <<>>
    ELSE (IF s[1] = old THEN new ELSE <<s[1]>>)
         \o StrReplace(Tail(s), old, new)

Contains(s, tok) == \E i \in 1..Len(s) : s[i] = tok

\* str(x) of the module global: "None" while it was never set
Str(x) == IF x = NoPath THEN <<"None">> ELSE x

(***************************************************************************)
(* The file system seen by the loader                                      *)
(***************************************************************************)
DefaultPath == <<"config", "sarc-dev.json">>

ConfigPaths ==
    { <<"/", "etc", "sarc.json">>,     \* valid, $SELF in both LDAP paths
      DefaultPath,                     \* valid, $SELF in one LDAP path only
      <<"bad.json">>,                  \* exists, not JSON
      <<"extra.json">>,                \* JSON, violates the schema
      <<"missing.json">> }             \* does not exist

FileKind(p) ==
    CASE p = <<"bad.json">> -> "malformed"
      [] p = <<"extra.json">> -> "invalid"
      [] p = <<"missing.json">> -> "missing"
      [] OTHER -> "valid"

\* the raw LDAP paths written in a valid file
RawLdap(p) ==
    CASE p = <<"/", "etc", "sarc.json">> ->
            [group_to_prof_json_path |-> <<"$SELF", "g2p.json">>,
             exceptions_json_path |-> <<"$SELF", "exc.json">>]
      [] OTHER ->
            [group_to_prof_json_path |-> <<"$SELF", "g2p.json">>,
             exceptions_json_path |-> <<"secrets", "exc.json">>]

\* the values SARC_CONFIG may hold when config() reads it (NoPath: not set)
EnvValues == {NoPath, <<"/", "etc", "sarc.json">>, <<"missing.json">>}

(***************************************************************************)
(* Path resolver and loader                                                *)
(***************************************************************************)
\* relative_filepath, with the module global it reads passed as `folder`
relative_filepath(path, folder) ==
    IF path = NoPath THEN path
    ELSE IF Contains(path, "$SELF")
        THEN StrReplace(path, "$SELF", Str(folder))
        ELSE path

\* LDAPConfig's two validators, run while the record is constructed
LDAPConfig(raw, folder) ==
    [group_to_prof_json_path |->
        relative_filepath(raw.group_to_prof_json_path, folder),
     exceptions_json_path |->
        relative_filepath(raw.exceptions_json_path, folder)]

\* Config.parse_file(config_path): the file is read and validated; the
\* validators see `folder` as the module global.  `t` is the task that
\* constructs the object.
parse_file(config_path, folder, t) ==
    CASE FileKind(config_path) = "missing" ->
            [exc |-> "FileNotFoundError", val |-> None]
      [] FileKind(config_path) = "malformed" ->
            [exc |-> "JSONDecodeError", val |-> None]
      [] FileKind(config_path) = "invalid" ->
            [exc |-> "ValidationError", val |-> None]
      [] OTHER ->
            [exc |-> "ok",
             val |-> [tag |-> "Config", path |-> config_path,
                      by |-> t,
                      ldap |-> LDAPConfig(RawLdap(config_path), folder)]]

\* parse_config without its test that the file exists
parse_config_unchecked(config_path, t) ==
    LET folder == Parent(config_path)
        r == parse_file(config_path, folder, t)
    IN  IF r.exc = "JSONDecodeError"
            THEN [folder |-> folder, kind |-> "ConfigurationError",
                  val |-> None]
            ELSE [folder |-> folder, kind |-> r.exc, val |-> r.val]

\* parse_config assigning _config_folder only after the file was parsed:
\* the validators still see the directory of the previous load
parse_config_stale(config_path, t) ==
    LET folder == Parent(config_path) IN
    IF FileKind(config_path) = "missing"
        THEN [folder |-> folder, kind |-> "ConfigurationError", val |-> None]
        ELSE LET r == parse_file(config_path, config_folder, t) IN
             IF r.exc = "JSONDecodeError"
                THEN [folder |-> folder, kind |-> "ConfigurationError",
                      val |-> None]
                ELSE [folder |-> folder, kind |-> r.exc, val |-> r.val]

\* parse_config: the new value of _config_folder and the outcome
parse_config(config_path, t) ==
    LET folder == Parent(config_path) IN
    IF FileKind(config_path) = "missing"
        THEN [folder |-> folder, kind |-> "ConfigurationError", val |-> None]
        ELSE LET r == parse_file(config_path, folder, t) IN
             IF r.exc = "JSONDecodeError"
                THEN [folder |-> folder, kind |-> "ConfigurationError",
                      val |-> None]
                ELSE [folder |-> folder, kind |-> r.exc, val |-> r.val]

(***************************************************************************)
(* The context-scoped current configuration                                *)
(***************************************************************************)
\* one context shared by every task, as a plain module global would be
SharedCtx(t) == 1

\* Each task runs in a context of its own (contextvars), where config_var
\* starts unset.
Ctx(t) == t

\* Config objects a task builds in memory and hands to using_config
Prebuilt(t) ==
    { [tag |-> "Config", path |-> NoPath, by |-> t,
       ldap |-> [group_to_prof_json_path |-> <<"mem", "g2p.json">>,
                 exceptions_json_path |-> NoPath]] }

\* using_config's argument: a path (str or Path) or a Config
Arguments(t) ==
    { [isPath |-> TRUE, path |-> q, cfg |-> None] : q \in ConfigPaths }
    \cup { [isPath |-> FALSE, path |-> NoPath, cfg |-> c] : c \in Prebuilt(t) }

\* config_var.get(): the default None while the variable is unset
Get(t) ==
    IF config_var[Ctx(t)] = MISSING THEN None ELSE config_var[Ctx(t)]

\* what a call hands back to its caller: `load` tells whether it went
\* through parse_config (with `path`), `kind` is "ok" or the exception
Result(t, op, path, kind, val, load) ==
    [task |-> t, op |-> op, path |-> path, kind |-> kind, val |-> val,
     load |-> load]

RECURSIVE SumLen(_)
SumLen(S) ==
    IF S = {} THEN 0
    ELSE LET t == CHOOSE x \in S : TRUE IN Len(frames[t]) + SumLen(S \ {t})

OpenScopes == SumLen(Tasks)

\* config(); `env` is what os.environ holds for SARC_CONFIG, should the
\* call come to read it
config(t, env) ==
    LET current == Get(t) IN
    IF current # None
        THEN /\ ret' =
                        Result(t, "config", NoPath, "ok", current, FALSE)
             /\ UNCHANGED <<config_var, config_folder, frames, lazy>>
        ELSE LET path == IF env = NoPath THEN DefaultPath ELSE env
                 r == parse_config(path, t)
             IN  /\ config_folder' = r.folder
                 /\ ret' =
                        Result(t, "config", path, r.kind, r.val, TRUE)
                 /\ IF r.kind = "ok"
                        THEN /\ config_var' =
                                    [config_var EXCEPT ![Ctx(t)] = r.val]
                             /\ lazy' = [lazy EXCEPT ![t] = r.val]
                        ELSE UNCHANGED <<config_var, lazy>>
                 /\ UNCHANGED frames

\* using_config(cfg), up to its yield: the generator is left suspended
\* holding the token of its config_var.set
using_config(t, arg) ==
    /\ OpenScopes < MaxScopes
    /\ IF arg.isPath
          THEN LET r == parse_config(arg.path, t) IN
               /\ config_folder' = r.folder
               /\ ret' =
                    Result(t, "using_config", arg.path, r.kind, r.val, TRUE)
               /\ IF r.kind = "ok"
                     THEN /\ config_var' =
                                [config_var EXCEPT ![Ctx(t)] = r.val]
                          /\ frames' = [frames EXCEPT ![t] = Append(@,
                                [token |-> config_var[Ctx(t)], cfg |-> r.val])]
                     ELSE UNCHANGED <<config_var, frames>>
          ELSE /\ config_var' = [config_var EXCEPT ![Ctx(t)] = arg.cfg]
               /\ frames' = [frames EXCEPT ![t] = Append(@,
                        [token |-> config_var[Ctx(t)], cfg |-> arg.cfg])]
               /\ ret' =
                        Result(t, "using_config", NoPath, "ok", arg.cfg, FALSE)
               /\ UNCHANGED config_folder
    /\ UNCHANGED lazy

\* The with-block of the innermost using_config is left.  "normal": the
\* body ran to its end; "return": it was left by return, break or
\* continue.  Both resume the generator after its yield, which runs
\* config_var.reset(token).  "raise": the exception is thrown into the
\* generator at its yield, where nothing catches it, so the generator ends
\* without running the reset and the exception goes on to the caller.
exit_scope(t, how) ==
    /\ frames[t] # <<>>
    /\ LET top == frames[t][Len(frames[t])] IN
       /\ frames' = [frames EXCEPT ![t] = SubSeq(@, 1, Len(@) - 1)]
       /\ IF how = "raise"
             THEN UNCHANGED config_var
             ELSE config_var' = [config_var EXCEPT ![Ctx(t)] = top.token]
       /\ ret' = Result(t, "exit", NoPath, how, None, FALSE)
    /\ UNCHANGED <<config_folder, lazy>>

\* a direct call of parse_config
load(t, path) ==
    LET r == parse_config(path, t) IN
    /\ config_folder' = r.folder
    /\ ret' = Result(t, "parse_config", path, r.kind, r.val, TRUE)
    /\ UNCHANGED <<config_var, frames, lazy>>

InitScope ==
    /\ config_var = [c \in {Ctx(t) : t \in Tasks} |-> MISSING]
    /\ config_folder = NoPath
    /\ frames = [t \in Tasks |-> <<>>]
    /\ lazy = [t \in Tasks |-> None]
    /\ ret = Result(0, "none", NoPath, "ok", None, FALSE)

\* the other two specifications' variables, at rest
IdleRecords == heap = <<>> /\ built = <<>> /\ raised = <<>> /\ rret = None
IdleRoot == rootin = None /\ root = None

Init == InitScope /\ IdleRecords /\ IdleRoot

ExitPaths == {"normal", "return", "raise"}

\* single-threaded use: every call is made by the one main task
MainTask == {1}

Next ==
    \/ \E t \in MainTask, env \in EnvValues :
            config(t, env) /\ UNCHANGED <<recordVars, rootVars>>
    \/ \E t \in MainTask, arg \in Arguments(1) :
            using_config(t, arg) /\ UNCHANGED <<recordVars, rootVars>>
    \/ \E t \in MainTask, how \in ExitPaths :
            exit_scope(t, how) /\ UNCHANGED <<recordVars, rootVars>>
    \/ \E t \in MainTask, path \in ConfigPaths :
            load(t, path) /\ UNCHANGED <<recordVars, rootVars>>

Spec == Init /\ [][Next]_vars

\* two tasks, each in its own context, interleave their calls
TaskArguments(t) ==
    { arg \in Arguments(t) :
        arg.isPath => arg.path \in {<<"/", "etc", "sarc.json">>,
                                     <<"missing.json">>} }

NextTasks ==
    \/ \E t \in Tasks :
            config(t, NoPath) /\ UNCHANGED <<recordVars, rootVars>>
    \/ \E t \in Tasks, arg \in Arguments(2) \cup Arguments(1) :
            /\ arg \in TaskArguments(t)
            /\ using_config(t, arg) /\ UNCHANGED <<recordVars, rootVars>>
    \/ \E t \in Tasks, how \in ExitPaths :
            exit_scope(t, how) /\ UNCHANGED <<recordVars, rootVars>>

SpecTasks == Init /\ [][NextTasks]_vars

(***************************************************************************)
(* Claims on the scoped current configuration and the loader               *)
(***************************************************************************)
Top(f) == f[Len(f)]

\* C1: whenever a using_config scope is left, on whichever exit path
\* (normal end, early return, exception), config_var holds again the value
\* it held when the scope was entered.
C1_RestoredOnEveryExit ==
    [][\A t \in Tasks :
        Len(frames'[t]) < Len(frames[t])
            => config_var'[Ctx(t)] = Top(frames[t]).token]_vars

\* C2: nested scopes compose.  While scopes are open the current
\* configuration is the one the innermost open scope installed, each scope
\* was entered under the configuration its enclosing scope installed, and
\* with no scope open the current configuration is what it was before the
\* outermost scope: unset, or the lazily loaded Config.
C2_NestedScopesCompose ==
    \A t \in Tasks :
        LET f == frames[t] IN
        /\ f # <<>> => Get(t) = Top(f).cfg
        /\ \A i \in 2..Len(f) : f[i].token = f[i - 1].cfg
        /\ f = <<>> => config_var[Ctx(t)] \in {MISSING, lazy[t]}

\* C5: scoped overrides are isolated between tasks.  The configuration a
\* task reads, holds as current, or has restored on leaving a scope is
\* always one that this task installed itself, and a call made by one task
\* leaves the current configuration of every other task as it was.
C5_TasksIsolated ==
    /\ [](\A t \in Tasks :
            /\ config_var[Ctx(t)] # MISSING => config_var[Ctx(t)].by = t
            /\ \A i \in 1..Len(frames[t]) :
                    frames[t][i].token # MISSING => frames[t][i].token.by = t
            /\ (ret.task = t /\ ret.val # None) => ret.val.by = t)
    /\ [][\A u \in Tasks :
            ret'.task # u => config_var'[Ctx(u)] = config_var[Ctx(u)]]_vars

C5_Witness ==
    /\ frames[1] # <<>> /\ frames[2] # <<>>
    /\ ret.op = "config" /\ ret.task = 2
    /\ ret.val = Top(frames[2]).cfg
    /\ config_var[Ctx(1)] = Top(frames[1]).cfg

\* C6: once config() has lazily loaded and stored a Config, every later
\* config() call made outside any using_config scope returns that stored
\* Config, and does so without going through the loader again.
C6_LazyLoadedOnce ==
    \A t \in Tasks :
        (ret.task = t /\ ret.op = "config" /\ frames[t] = <<>>
            /\ lazy[t] # None /\ ret.kind = "ok")
        => ret.val = lazy[t]

Resolved(raw, got, dir) ==
    IF Contains(raw, "$SELF")
        THEN /\ raw[1] = "$SELF"
             /\ Len(got) = Len(dir) + Len(raw) - 1
             /\ SubSeq(got, 1, Len(dir)) = dir
             /\ SubSeq(got, Len(dir) + 1, Len(got)) = Tail(raw)
        ELSE got = raw

LdapFields == {"group_to_prof_json_path", "exceptions_json_path"}

NoneStr == "<None>"     \* Python's None in a str-valued place

\* An instance is [cls, d]: its class and its __dict__, which holds the
\* field values and, once computed, the cached_property values.
\* ClusterConfig's remaining fields (sacct_bin, accounts, duc_*_command,
\* diskusage_report_command) are plain values that nothing here reads; they
\* behave as `name` does.
ClusterFields ==
    {"host", "timezone", "prometheus_url", "prometheus_headers_file",
     "name", "sshconfig"}
MongoFields == {"connection_string", "database_name"}

Fields(cls) == IF cls = "ClusterConfig" THEN ClusterFields ELSE MongoFields
Required(cls) ==
    IF cls = "ClusterConfig" THEN {"host", "timezone"} ELSE MongoFields
Default(k) == IF k = "sshconfig" THEN NoPath ELSE NoneStr

\* the attributes of the class that are cached_property objects
CachedProperties(cls) ==
    IF cls = "ClusterConfig" THEN {"ssh", "prometheus"}
    ELSE {"database_instance"}

\* {**base, **over}
Merge(base, over) ==
    [k \in DOMAIN base \cup DOMAIN over |->
        IF k \in DOMAIN over THEN over[k] ELSE base[k]]

\* ClusterConfig._timezone: a zone name [str |-> n] becomes the ZoneInfo
\* [zone |-> n]; a ZoneInfo is kept
_timezone(value) ==
    IF "str" \in DOMAIN value THEN [zone |-> value.str] ELSE value

\* type(self)(**kwargs): Extra.forbid, required fields, defaults, validators
construct(cls, kwargs) ==
    IF ~(DOMAIN kwargs \subseteq Fields(cls))
       \/ ~(Required(cls) \subseteq DOMAIN kwargs)
        THEN [exc |-> "ValidationError", d |-> <<>>]
        ELSE [exc |-> "ok",
              d |-> [k \in Fields(cls) |->
                        IF k \in DOMAIN kwargs
                            THEN (IF k = "timezone"
                                    THEN _timezone(kwargs[k])
                                    ELSE kwargs[k])
                            ELSE Default(k)]]

\* BaseModel.dict leaving the computed cached_property values in
dict_with_cached(self) == self.d

\* BaseModel.dict: pydantic's dict() is a fresh mapping of all of __dict__,
\* from which the cached_property keys are deleted.  (No record of this
\* file has a date-valued field for the second loop to convert.)
dict(self) ==
    [k \in {x \in DOMAIN self.d : x \notin CachedProperties(self.cls)}
        |-> self.d[k]]

\* BaseModel.replace
replace(self, replacements) ==
    construct(self.cls, Merge(dict(self), replacements))

\* pydantic's BaseModel.__eq__: the two records' dict() are equal
Eq(a, b) == dict(a) = dict(b)

\* the files the handle factories read
HeadersFileKind(f) ==
    CASE f = "broken.json" -> "JSONDecodeError"
      [] f = "absent.json" -> "FileNotFoundError"
      [] OTHER -> "ok"
SshFileKind(q) == IF q = <<"/", "ssh", "gone">> THEN "FileNotFoundError" ELSE "ok"

\* the identity of the next object accessor `name` of instance i constructs
NewId(i, name) == [obj |-> i, name |-> name, nth |-> built[i][name] + 1]

\* the accessors that raised so far, with one more
Raise(i, name, exc) ==
    IF exc = "ConfigurationError"
        THEN [raised EXCEPT ![i] = @ \cup {name}]
        ELSE raised

\* body of ClusterConfig.ssh; `id` is the identity of the object it makes
ssh_body(self, id) ==
    IF self.d.sshconfig # NoPath /\ SshFileKind(self.d.sshconfig) # "ok"
        THEN [exc |-> SshFileKind(self.d.sshconfig), val |-> None]
        ELSE [exc |-> "ok",
              val |-> [handle |-> "Connection", id |-> id,
                       host |-> self.d.host,
                       ssh_config |-> self.d.sshconfig]]

\* ClusterConfig.prometheus without its test of prometheus_url
prometheus_body_unchecked(self, id) ==
    LET f == self.d.prometheus_headers_file
        headers == IF f # NoneStr THEN HeadersFileKind(f) ELSE "ok"
    IN  IF headers # "ok" THEN [exc |-> headers, val |-> None]
        ELSE [exc |-> "ok",
              val |-> [handle |-> "PrometheusConnect", id |-> id,
                       url |-> self.d.prometheus_url, headers |-> f]]

\* body of ClusterConfig.prometheus
prometheus_body(self, id) ==
    LET f == self.d.prometheus_headers_file
        headers == IF f # NoneStr THEN HeadersFileKind(f) ELSE "ok"
    IN  IF headers # "ok" THEN [exc |-> headers, val |-> None]
        ELSE IF self.d.prometheus_url = NoneStr
            THEN [exc |-> "ConfigurationError", val |-> None]
            ELSE [exc |-> "ok",
                  val |-> [handle |-> "PrometheusConnect", id |-> id,
                           url |-> self.d.prometheus_url, headers |-> f]]

\* body of MongoConfig.database_instance
database_instance_body(self, id) ==
    [exc |-> "ok",
     val |-> [handle |-> "Database", id |-> id,
              client |-> self.d.connection_string,
              name |-> self.d.database_name]]

Called(op, i, kind, val) == [op |-> op, obj |-> i, kind |-> kind, val |-> val]

\* a plain property: the body runs at every access and nothing is stored
plain_property(i, name, r) ==
    IF r.exc = "ok"
        THEN /\ built[i][name] < MaxBuilt
             /\ built' = [built EXCEPT ![i][name] = @ + 1]
             /\ rret' = Called(name, i, "ok", r.val)
             /\ UNCHANGED <<heap, raised>>
        ELSE /\ rret' = Called(name, i, r.exc, None)
             /\ raised' = Raise(i, name, r.exc)
             /\ UNCHANGED <<heap, built>>

\* functools.cached_property.__get__ on instance i: `r` is what the body
\* yields if it has to run.  A value is stored only when the body returns.
cached_property(i, name, r) ==
    IF name \in DOMAIN heap[i].d
        THEN /\ rret' = Called(name, i, "ok", heap[i].d[name])
             /\ UNCHANGED <<heap, built, raised>>
        ELSE IF r.exc = "ok"
            THEN /\ built[i][name] < MaxBuilt
                 /\ built' = [built EXCEPT ![i][name] = @ + 1]
                 /\ heap' = [heap EXCEPT ![i].d =
                                Merge(@, [k \in {name} |-> r.val])]
                 /\ rret' = Called(name, i, "ok", r.val)
                 /\ UNCHANGED raised
            ELSE /\ rret' = Called(name, i, r.exc, None)
                 /\ raised' = Raise(i, name, r.exc)
                 /\ UNCHANGED <<heap, built>>

Instances(cls) == {i \in 1..Len(heap) : heap[i].cls = cls}

ssh(i) ==
    /\ i \in Instances("ClusterConfig")
    /\ cached_property(i, "ssh", ssh_body(heap[i], NewId(i, "ssh")))

prometheus(i) ==
    /\ i \in Instances("ClusterConfig")
    /\ cached_property(i, "prometheus",
                       prometheus_body(heap[i], NewId(i, "prometheus")))

database_instance(i) ==
    /\ i \in Instances("MongoConfig")
    /\ cached_property(i, "database_instance",
                       database_instance_body(heap[i],
                                              NewId(i, "database_instance")))

\* BaseModel.__setattr__ (pydantic): a name that is no field is refused,
\* a field is assigned without validation
setattr(i, name, value) ==
    /\ i \in 1..Len(heap)
    /\ IF name \in Fields(heap[i].cls)
          THEN /\ heap' = [heap EXCEPT ![i].d[name] = value]
               /\ rret' = Called("setattr", i, "ok", None)
          ELSE /\ rret' = Called("setattr", i, "ValueError", None)
               /\ UNCHANGED heap
    /\ UNCHANGED <<built, raised>>

call_dict(i) ==
    /\ i \in 1..Len(heap)
    /\ rret' = Called("dict", i, "ok", dict(heap[i]))
    /\ UNCHANGED <<heap, built, raised>>

\* r.replace(**replacements): the new instance is handed to the caller
call_replace(i, replacements) ==
    /\ i \in 1..Len(heap)
    /\ LET r == replace(heap[i], replacements) IN
       rret' = [op |-> "replace", obj |-> i, kind |-> r.exc,
                val |-> [cls |-> heap[i].cls, d |-> r.d],
                replacements |-> replacements]
    /\ UNCHANGED <<heap, built, raised>>

Urls == {NoneStr, "http://prom"}
HeaderFiles == {NoneStr, "headers.json", "broken.json"}
SshConfigs == {NoPath, <<"/", "ssh", "config">>, <<"/", "ssh", "gone">>}

\* what the callers assign
Assignments ==
    { <<"prometheus_url", u>> : u \in Urls }
    \cup { <<"prometheus", "http://prom">> }

\* what the callers pass to replace
Replacements(cls) ==
    IF cls = "ClusterConfig"
        THEN { <<>>, [host |-> "h2"], [timezone |-> [str |-> "UTC"]],
               [prometheus_url |-> "http://prom", name |-> "n2"],
               [bogus |-> "x"] }
        ELSE { <<>>, [database_name |-> "other"] }

InitRecords ==
    /\ \E url \in Urls, hdr \in HeaderFiles, sshc \in SshConfigs :
         heap = << [cls |-> "ClusterConfig",
                    d |-> construct("ClusterConfig",
                            [host |-> "h1", timezone |-> [str |-> "UTC"],
                             prometheus_url |-> url,
                             prometheus_headers_file |-> hdr,
                             sshconfig |-> sshc]).d],
                   [cls |-> "MongoConfig",
                    d |-> construct("MongoConfig",
                            [connection_string |-> "mongodb://db",
                             database_name |-> "sarc"]).d] >>
    /\ built = << [k \in CachedProperties("ClusterConfig") |-> 0],
                  [k \in CachedProperties("MongoConfig") |-> 0] >>
    /\ raised = <<{}, {}>>
    /\ rret = Called("none", 0, "ok", None)

InitRecordsSpec == InitScope /\ InitRecords /\ IdleRoot

NextRecords ==
    \/ \E i \in 1..Len(heap) :
            ssh(i) /\ UNCHANGED <<scopeVars, rootVars>>
    \/ \E i \in 1..Len(heap) :
            prometheus(i) /\ UNCHANGED <<scopeVars, rootVars>>
    \/ \E i \in 1..Len(heap) :
            database_instance(i) /\ UNCHANGED <<scopeVars, rootVars>>
    \/ \E i \in 1..Len(heap), a \in Assignments :
            setattr(i, a[1], a[2]) /\ UNCHANGED <<scopeVars, rootVars>>
    \/ \E i \in 1..Len(heap) :
            call_dict(i) /\ UNCHANGED <<scopeVars, rootVars>>
    \/ \E i \in 1..Len(heap) :
            \E replacements \in Replacements(heap[i].cls) :
                call_replace(i, replacements)
                /\ UNCHANGED <<scopeVars, rootVars>>

SpecRecords == InitRecordsSpec /\ [][NextRecords]_vars

(***************************************************************************)
(* Claims on the leaf records                                              *)
(***************************************************************************)
Slots == {<<i, n>> \in (1..Len(heap)) \X {"ssh", "prometheus",
                                          "database_instance"} :
            n \in CachedProperties(heap[i].cls)}

\* C3: each accessor constructs its handle at most once per instance; a
\* stored handle is the one that was constructed, every successful access
\* returns the stored object, and no step (an access, setattr, dict,
\* replace) removes or replaces a stored handle.
C3_HandleBuiltOnce ==
    /\ [](\A s \in Slots :
            LET i == s[1]
                n == s[2]
            IN  /\ built[i][n] <= 1
                /\ n \in DOMAIN heap[i].d <=> built[i][n] = 1
                /\ (rret.op = n /\ rret.obj = i /\ rret.kind = "ok")
                        => /\ n \in DOMAIN heap[i].d
                           /\ rret.val = heap[i].d[n])
    /\ [][\A s \in Slots :
            s[2] \in DOMAIN heap[s[1]].d
                => /\ s[2] \in DOMAIN heap'[s[1]].d
                   /\ heap'[s[1]].d[s[2]] = heap[s[1]].d[s[2]]]_vars

\* the metrics handle was stored while the URL was set; the URL was then
\* unset and the accessor still hands back the stored handle
C3_Witness ==
    /\ rret.op = "prometheus" /\ rret.kind = "ok"
    /\ heap[rret.obj].d.prometheus_url = NoneStr
    /\ rret.val = heap[rret.obj].d.prometheus
    /\ "ssh" \in DOMAIN heap[rret.obj].d

PrometheusAccessed(i) == rret'.op = "prometheus" /\ rret'.obj = i

HeadersReadable(d) ==
    \/ d.prometheus_headers_file = NoneStr
    \/ HeadersFileKind(d.prometheus_headers_file) = "ok"

\* C4 as claimed: an access of prometheus on an instance whose
\* prometheus_url is unset fails with ConfigurationError and stores
\* nothing; with the URL set the access succeeds and the handle is stored.
C4_FailureNotCached ==
    [][\A i \in Instances("ClusterConfig") :
        PrometheusAccessed(i) =>
            IF heap[i].d.prometheus_url = NoneStr
                THEN /\ rret'.kind = "ConfigurationError"
                     /\ heap' = heap
                ELSE /\ rret'.kind = "ok"
                     /\ "prometheus" \in DOMAIN heap'[i].d
                     /\ rret'.val = heap'[i].d.prometheus]_vars

\* C4 amended: the same, for an instance that holds no stored metrics
\* handle yet and whose prometheus_headers_file is unset or names a file
\* that reads as JSON.
C4_FailureNotCachedReadableHeaders ==
    [][\A i \in Instances("ClusterConfig") :
        (/\ PrometheusAccessed(i)
         /\ "prometheus" \notin DOMAIN heap[i].d
         /\ HeadersReadable(heap[i].d)) =>
            IF heap[i].d.prometheus_url = NoneStr
                THEN /\ rret'.kind = "ConfigurationError"
                     /\ heap' = heap
                     /\ built' = built
                ELSE /\ rret'.kind = "ok"
                     /\ "prometheus" \in DOMAIN heap'[i].d
                     /\ rret'.val = heap'[i].d.prometheus]_vars

\* the accessor raised ConfigurationError on this instance earlier; the URL
\* was supplied since, and the access succeeded and stored the handle
C4_Witness ==
    \E i \in Instances("ClusterConfig") :
        /\ "prometheus" \in raised[i]
        /\ rret.op = "prometheus" /\ rret.obj = i /\ rret.kind = "ok"
        /\ "prometheus" \in DOMAIN heap[i].d
        /\ heap[i].d.prometheus.url = "http://prom"

\* C9: replace is a pure functional update.  With replacements that name
\* fields only, replace succeeds whether or not handles are stored on the
\* record; the new record holds the fields and nothing else, each
\* replaced field holds the value supplied, every other field holds the
\* record's value, with no replacement the new record equals the record;
\* and the call leaves every instance as it was.
C9_ReplaceIsPure ==
    /\ [](rret.op = "replace" =>
            LET r == heap[rret.obj]
                new == rret.val
                over == rret.replacements
            IN  DOMAIN over \subseteq Fields(r.cls) =>
                  /\ rret.kind = "ok"
                  /\ DOMAIN new.d = Fields(r.cls)
                  /\ \A f \in Fields(r.cls) \ DOMAIN over :
                        new.d[f] = r.d[f]
                  /\ \A f \in DOMAIN over \ {"timezone"} :
                        new.d[f] = over[f]
                  /\ DOMAIN over = {} => Eq(new, r))
    /\ [][rret'.op = "replace" => heap' = heap]_vars

C9_Witness ==
    /\ rret.op = "replace" /\ rret.kind = "ok"
    /\ DOMAIN rret.replacements = {"prometheus_url", "name"}
    /\ {"ssh", "prometheus"} \subseteq DOMAIN heap[rret.obj].d
    /\ heap[rret.obj].d.name = NoneStr /\ rret.val.d.name = "n2"

(***************************************************************************)
(* The root Config and its validators                                      *)
(***************************************************************************)
\* a value pydantic cannot coerce to a Path
NotAPath == <<"<int>">>

\* Config._absolute_path: `value and value.expanduser().absolute()`
_absolute_path(value) ==
    IF value = NoPath THEN value ELSE Absolute(ExpandUser(value))

\* Config._complete_cluster_fields overwriting every name by its key
_complete_cluster_fields_always(value, values) ==
    [name \in DOMAIN value |->
        LET cluster == value[name] IN
        [cluster EXCEPT
            !.name = name,
            !.sshconfig = IF @ = NoPath /\ "sshconfig" \in DOMAIN values
                            THEN values.sshconfig ELSE @]]

\* Config._complete_cluster_fields: `not cluster.name` holds of None and of
\* the empty string, `not cluster.sshconfig` of None only (a Path is never
\* falsy); `values` holds the fields validated before `clusters`
_complete_cluster_fields(value, values) ==
    [name \in DOMAIN value |->
        LET cluster == value[name] IN
        [cluster EXCEPT
            !.name = IF @ = NoneStr \/ @ = "" THEN name ELSE @,
            !.sshconfig = IF @ = NoPath /\ "sshconfig" \in DOMAIN values
                            THEN values.sshconfig ELSE @]]

\* Config(**kwargs), fields in their order of declaration: sshconfig and
\* cache (a field that fails its type is left out of `values` and makes the
\* construction fail), then clusters, whose entries are ClusterConfig
\* records validated on their own before the validator of clusters runs
Config(kwargs) ==
    LET paths == [k \in {f \in {"sshconfig", "cache"} : kwargs[f] # NotAPath}
                    |-> _absolute_path(kwargs[k])]
        entries == [k \in DOMAIN kwargs.clusters |->
                        construct("ClusterConfig", kwargs.clusters[k]).d]
        clusters == _complete_cluster_fields(entries, paths)
    IN  IF DOMAIN paths # {"sshconfig", "cache"}
            THEN [exc |-> "ValidationError"]
            ELSE [exc |-> "ok", sshconfig |-> paths.sshconfig,
                  cache |-> paths.cache, clusters |-> clusters]

RootPaths ==
    {NoPath, NotAPath, <<"ssh", "config">>, <<"~", ".ssh", "config">>,
     <<"/", "etc", "ssh_config">>}
ClusterKeys == {"narval", "cedar"}
ClusterInputs ==
    { [host |-> "h1", timezone |-> [str |-> "UTC"], name |-> n,
       sshconfig |-> q] :
        n \in {NoneStr, "", "alias"}, q \in {NoPath, <<"own", "config">>} }

InitRoot ==
    /\ rootin \in [sshconfig : RootPaths, cache : {NoPath, <<"~", "cache">>},
                   clusters : [ClusterKeys -> ClusterInputs]]
    /\ root = None

InitRootSpec == InitScope /\ IdleRecords /\ InitRoot

\* Config(**rootin) is evaluated
construct_root ==
    /\ root = None
    /\ root' = Config(rootin)
    /\ UNCHANGED rootin

NextRoot == construct_root /\ UNCHANGED <<scopeVars, recordVars>>

SpecRoot == InitRootSpec /\ [][NextRoot]_vars

Constructed == root # None /\ root.exc = "ok"

\* the root's sshconfig is unset if none was given, and otherwise the given
\* path made absolute with its leading "~" expanded
RootNormalized ==
    LET given == rootin.sshconfig
        got == root.sshconfig
    IN  IF given = NoPath THEN got = NoPath
        ELSE /\ IsAbsolute(got)
             /\ ~Contains(got, "~")
             /\ got[Len(got)] = given[Len(given)]
             /\ IsAbsolute(given) => got = given

\* C8 as claimed: an entry without a name is named after its key, an entry
\* without an sshconfig holds the root's normalized sshconfig (unset when
\* the root has none), and an entry keeps an explicit name or sshconfig.
C8_ClusterDefaults ==
    Constructed =>
        /\ RootNormalized
        /\ \A k \in ClusterKeys :
            LET given == rootin.clusters[k]
                got == root.clusters[k]
            IN  /\ got.name = IF given.name = NoneStr THEN k ELSE given.name
                /\ got.sshconfig = IF given.sshconfig = NoPath
                                    THEN root.sshconfig ELSE given.sshconfig

\* C8 amended: an entry keeps an explicit name that is not empty; an entry
\* whose name is unset or the empty string is named after its key.
C8_ClusterDefaultsNonEmptyName ==
    Constructed =>
        /\ RootNormalized
        /\ \A k \in ClusterKeys :
            LET given == rootin.clusters[k]
                got == root.clusters[k]
            IN  /\ got.name = IF given.name \in {NoneStr, ""}
                                THEN k ELSE given.name
                /\ got.sshconfig = IF given.sshconfig = NoPath
                                    THEN root.sshconfig ELSE given.sshconfig

C8_Witness ==
    /\ Constructed
    /\ rootin.sshconfig = <<"~", ".ssh", "config">>
    /\ rootin.clusters["narval"].name = NoneStr
    /\ rootin.clusters["narval"].sshconfig = NoPath
    /\ root.clusters["narval"].name = "narval"
    /\ root.clusters["narval"].sshconfig = <<"/", "home", ".ssh", "config">>
    /\ rootin.clusters["cedar"].name = "alias"
    /\ root.clusters["cedar"].name = "alias"
    /\ root.clusters["cedar"].sshconfig = <<"own", "config">>

=============================================================================
